---- MODULE Spec2Model ----
(***************************************************************************)
(* Model of Assignment_1_Data.py: main() obtains a database connection and *)
(* runs a fixed catalog of queries through execute_query(), which opens a  *)
(* cursor, fetches all rows and prints them as a right-aligned text table. *)
(*                                                                         *)
(* The database is external: whether cursor(), execute() or fetchall()     *)
(* raise, and which columns and rows come back, is nondeterministic.       *)
(* Printed lines are kept as records [kind, text]; the emoji and the blank *)
(* line that prefix some messages are left out of the text.                *)
(***************************************************************************)
EXTENDS Integers, Sequences, FiniteSets, TLC

VARIABLES
    mpc,              \* position in main()
    conn,             \* "unset" | "open" | "none" (connect failed) | "closed"
    idx,              \* index of the current catalog entry
    executed,         \* catalog indices execute_query was called for, in order
    connReports,      \* number of "Connection failed" lines printed
    queryReports,     \* number of "Query failed" lines printed in the run
    cursors,          \* cursors of the connection opened and not yet closed
    qpc,              \* position in execute_query()
    limit_rows,       \* argument limit_rows
    cursor,           \* local cursor: "none" | "open" | "closed"
    results,          \* local results (fetchall)
    columns,          \* local columns (names of cursor.description)
    display_results,  \* local display_results
    col_widths,       \* local col_widths: column name -> width
    wi, wj,           \* width loop: row index in the sample, cell index
    ri,               \* print loop: index of the next row to print
    out,              \* lines printed by the current execute_query call
    outcome           \* exit path of the call: "none"|"empty"|"rendered"|"failed"

vars == <<mpc, conn, idx, executed, connReports, queryReports, cursors, qpc,
          limit_rows, cursor, results, columns, display_results, col_widths,
          wi, wj, ri, out, outcome>>

frameVars == <<limit_rows, cursor, results, columns, display_results,
               col_widths, wi, wj, ri, out, outcome>>

----------------------------------------------------------------------------
(* Bounds of the model *)

MaxRows == 6        \* rows a query returns, at most
MaxLimit == 6       \* largest display limit given to a direct call
MaxNegLimit == 1    \* display limits down to -MaxNegLimit are tried
MaxCols == 2        \* columns of a result, at most
MaxMainRows == 2    \* rows a catalog query returns in the whole-run model

(* Constants of the program *)

SampleSize == 5     \* display_results[:5]
MinWidth == 10      \* max(len(str(col)), 10)
MaxValWidth == 20   \* min(val_len, 20)
NullLen == 4        \* val_len of None

----------------------------------------------------------------------------
(* Values *)

Max(a, b) == IF a >= b THEN a ELSE b
Min(a, b) == IF a <= b THEN a ELSE b

None == [tag |-> "null", n |-> 0, s |-> ""]
IntV(k) == [tag |-> "int", n |-> k, s |-> ""]
TextV(t) == [tag |-> "text", n |-> 0, s |-> t]

NoLimit == [some |-> FALSE, n |-> 0]
Limit(k) == [some |-> TRUE, n |-> k]

Digit(d) ==
    CASE d = 0 -> "0" [] d = 1 -> "1" [] d = 2 -> "2" [] d = 3 -> "3"
      [] d = 4 -> "4" [] d = 5 -> "5" [] d = 6 -> "6" [] d = 7 -> "7"
      [] d = 8 -> "8" [] d = 9 -> "9"

RECURSIVE StrNat(_)
StrNat(k) == IF k < 10 THEN Digit(k) ELSE StrNat(k \div 10) \o Digit(k % 10)

\* str() of an integer
StrInt(k) == IF k < 0 THEN "-" \o StrNat(-k) ELSE StrNat(k)

\* str(val)
Str(val) ==
    CASE val.tag = "int" -> StrInt(val.n)
      [] val.tag = "text" -> val.s
      [] val.tag = "null" -> "None"

\* "x" * k
RECURSIVE Repeat(_, _)
Repeat(ch, k) == IF k <= 0 THEN "" ELSE ch \o Repeat(ch, k - 1)

\* sep.join(parts)
RECURSIVE Join(_, _)
Join(sep, parts) ==
    IF Len(parts) = 0 THEN ""
    ELSE IF Len(parts) = 1 THEN parts[1]
    ELSE parts[1] \o sep \o Join(sep, Tail(parts))

\* f"{s:>{w}}": pad on the left to width w, never cut
FormatRightCut(s, w) ==
    IF Len(s) > w THEN SubSeq(s, 1, w) ELSE Repeat(" ", w - Len(s)) \o s
FormatRight(s, w) == Repeat(" ", Max(w - Len(s), 0)) \o s

\* str(val) if val is not None else 'NULL'
CellText(val) == IF val # None THEN Str(val) ELSE "NULL"

\* len(str(val)) if val is not None else 4
ValLen(val) == IF val # None THEN Len(Str(val)) ELSE NullLen

\* bool(limit_rows)
Truthy(lim) == lim.some /\ lim.n # 0

\* seq[:k]
PySlice(seq, k) ==
    IF k >= 0 THEN SubSeq(seq, 1, Min(k, Len(seq)))
    ELSE SubSeq(seq, 1, Max(Len(seq) + k, 0))

\* results[:limit_rows] if limit_rows else results
DisplayAll(res, lim) == res
Display(res, lim) == IF Truthy(lim) THEN PySlice(res, lim.n) ELSE res

\* display_results[:5]
SampleAll(disp) == disp
Sample(disp) == PySlice(disp, SampleSize)

\* col_widths after the first loop
InitWidthsNoFloor(cols) ==
    [c \in {cols[i] : i \in 1..Len(cols)} |-> Len(c)]
InitWidths(cols) ==
    [c \in {cols[i] : i \in 1..Len(cols)} |-> Max(Len(c), MinWidth)]

\* col_widths[col] = max(col_widths[col], min(val_len, 20))
Widen(w, val) == Max(w, Min(ValLen(val), MaxValWidth))

\* " | ".join(f"{col:>{col_widths[col]}}" for col in columns)
HeaderLine(cols, widths) ==
    Join(" | ", [i \in 1..Len(cols) |-> FormatRight(cols[i], widths[cols[i]])])

\* " | ".join(f"{...:>{col_widths[columns[i]]}}" for i, val in enumerate(row))
RowLine(row, cols, widths) ==
    Join(" | ", [i \in 1..Len(row) |->
                    FormatRight(CellText(row[i]), widths[cols[i]])])

\* the summary line
SummaryLine(res, disp, lim) ==
    IF Truthy(lim) /\ Len(res) > lim.n
    THEN "Showing " \o StrInt(Len(disp)) \o " of " \o StrInt(Len(res)) \o " rows"
    ELSE "Total rows: " \o StrInt(Len(res))

Line(k, t) == [kind |-> k, text |-> t]

EmptyWidths == [c \in {} |-> 0]

----------------------------------------------------------------------------
(* The catalog of main(): basic_queries, analytical_queries, quality_checks, *)
(* in the order main() runs them.  Only the name and the display limit of   *)
(* an entry matter to the program; the SQL text goes to the database.       *)

basic_queries ==
    << [name |-> "Database Tables Overview", limit |-> NoLimit],
       [name |-> "Sample Payment Data", limit |-> NoLimit] >>

analytical_queries ==
    << [name |-> "1. Payment Method Performance Analysis", limit |-> Limit(10)],
       [name |-> "2. Customer Geographic Distribution", limit |-> Limit(15)],
       [name |-> "3. Top Product Categories", limit |-> Limit(10)],
       [name |-> "4. Payment Installment Analysis", limit |-> Limit(15)],
       [name |-> "5. Payment Value Distribution Analysis", limit |-> NoLimit],
       [name |-> "6. Top Customer Cities", limit |-> Limit(15)],
       [name |-> "7. Geographic Coverage by State", limit |-> Limit(15)],
       [name |-> "8. Product Content Analysis", limit |-> Limit(10)],
       [name |-> "9. Seller Geographic Distribution", limit |-> Limit(15)] >>

quality_checks ==
    << [name |-> "NULL Values Check", limit |-> NoLimit] >>

Catalog == basic_queries \o analytical_queries \o quality_checks

NumEntries == Len(Catalog)

----------------------------------------------------------------------------
(* What the database may return *)

Names == {"id", "payment_type", "avg_transaction_value"}

Values == {None, TextV("AAAAAAAAAAAAA"), TextV("BBBBBBBBBBBBBBBBBBBBBBB")}

BaseValues == {None, IntV(5000)}

\* the column lists of up to MaxCols names, names may repeat; one list per
\* multiset of names (shorter names first)
ColumnLists ==
    {cols \in UNION {[1..k -> Names] : k \in 1..MaxCols} :
        \A i \in 1..(Len(cols) - 1) : Len(cols[i]) <= Len(cols[i + 1])}

\* n rows of base value b; row p holds s in cell q and has d cells more
\* (d > 0) or fewer (d < 0) than there are columns
MkRows(cols, n, p, q, b, s, d) ==
    [i \in 1..n |->
        IF i = p
        THEN [j \in 1..(Len(cols) + d) |-> IF j = q THEN s ELSE b]
        ELSE [j \in 1..Len(cols) |-> b]]

\* the odd row is the first or the last one
RowPlaces(maxRows) ==
    {x \in (1..maxRows) \X (1..maxRows) : x[2] \in {1, x[1]}}

ResultsFor(colLists, maxRows, bases, specials) ==
    {[columns |-> cols, rows |-> <<>>] : cols \in colLists}
    \cup
    UNION {{[columns |-> cols, rows |-> MkRows(cols, np[1], np[2], q, b, s, 0)] :
              np \in RowPlaces(maxRows), q \in 1..Len(cols),
              b \in bases, s \in specials} : cols \in colLists}
    \cup
    {[columns |-> cols, rows |-> MkRows(cols, np[1], np[2], 0, b, b, d)] :
        cols \in colLists, np \in RowPlaces(maxRows),
        b \in bases, d \in {-1, 1}}

QueryResults == ResultsFor(ColumnLists, MaxRows, BaseValues, Values)

MainResults ==
    ResultsFor({<<"id", "payment_type">>}, MaxMainRows, {IntV(5000)},
               {None, TextV("BBBBBBBBBBBBBBBBBBBBBBB")})

Limits == {NoLimit} \cup {Limit(k) : k \in (0 - MaxNegLimit)..MaxLimit}

WellFormed(res, cols) == \A i \in 1..Len(res) : Len(res[i]) = Len(cols)

----------------------------------------------------------------------------
(* main() *)

InitFrame ==
    /\ limit_rows = NoLimit
    /\ cursor = "none"
    /\ results = <<>>
    /\ columns = <<>>
    /\ display_results = <<>>
    /\ col_widths = EmptyWidths
    /\ wi = 0 /\ wj = 0 /\ ri = 0
    /\ out = <<>>
    /\ outcome = "none"

Init ==
    /\ mpc = "start"
    /\ conn = "unset"
    /\ idx = 0
    /\ executed = <<>>
    /\ connReports = 0
    /\ queryReports = 0
    /\ cursors = 0
    /\ qpc = "idle"
    /\ InitFrame

\* get_database_connection(): mysql.connect succeeds
ConnectOk ==
    /\ mpc = "start"
    /\ conn' = "open"
    /\ mpc' = "check"
    /\ UNCHANGED <<idx, executed, connReports, queryReports, cursors, qpc>>
    /\ UNCHANGED frameVars

\* get_database_connection(): mysql.Error, reported, None returned
ConnectFail ==
    /\ mpc = "start"
    /\ conn' = "none"
    /\ connReports' = connReports + 1
    /\ mpc' = "check"
    /\ UNCHANGED <<idx, executed, queryReports, cursors, qpc>>
    /\ UNCHANGED frameVars

\* if not conn: return
AfterCheckSkip == "loop"
AfterCheck == IF conn = "none" THEN "aborted" ELSE "loop"

CheckConn ==
    /\ mpc = "check"
    /\ mpc' = AfterCheck
    /\ idx' = 1
    /\ UNCHANGED <<conn, executed, connReports, queryReports, cursors, qpc>>
    /\ UNCHANGED frameVars

\* the three for loops: the call of execute_query for the next entry
Call ==
    /\ mpc = "loop"
    /\ idx <= NumEntries
    /\ mpc' = "call"
    /\ executed' = Append(executed, idx)
    /\ qpc' = "banner"
    /\ limit_rows' = Catalog[idx].limit
    /\ UNCHANGED <<conn, idx, connReports, queryReports, cursors>>
    /\ UNCHANGED <<cursor, results, columns, display_results, col_widths,
                   wi, wj, ri, out, outcome>>

\* conn.close() and the closing summary
CloseConn ==
    /\ mpc = "loop"
    /\ idx > NumEntries
    /\ conn' = IF conn = "open" THEN "closed" ELSE conn
    /\ mpc' = IF conn = "open" THEN "done" ELSE "crashed"
    /\ UNCHANGED <<idx, executed, connReports, queryReports, cursors, qpc>>
    /\ UNCHANGED frameVars


----------------------------------------------------------------------------
(* execute_query() *)

\* the five banner lines printed before the try block
Banner ==
    /\ qpc = "banner"
    /\ out' = <<Line("banner", "rule"), Line("banner", "name"),
                Line("banner", "rule"), Line("banner", "query"),
                Line("banner", "rule")>>
    /\ cursor' = "none"
    /\ results' = <<>>
    /\ columns' = <<>>
    /\ display_results' = <<>>
    /\ col_widths' = EmptyWidths
    /\ wi' = 0 /\ wj' = 0 /\ ri' = 0
    /\ outcome' = "none"
    /\ qpc' = "cursor"
    /\ UNCHANGED <<mpc, conn, idx, executed, connReports, queryReports,
                   cursors, limit_rows>>

\* cursor = connection.cursor(); raises on a lost or missing connection
OpenCursor ==
    /\ qpc = "cursor"
    /\ \/ /\ conn = "open"
          /\ cursor' = "open"
          /\ cursors' = cursors + 1
          /\ qpc' = "execute"
       \/ /\ qpc' = "except"
          /\ UNCHANGED <<cursor, cursors>>
    /\ UNCHANGED <<mpc, conn, idx, executed, connReports, queryReports,
                   limit_rows, results, columns, display_results, col_widths,
                   wi, wj, ri, out, outcome>>

\* cursor.execute(sql_query)
Execute ==
    /\ qpc = "execute"
    /\ \/ qpc' = "fetch"
       \/ qpc' = "except"
    /\ UNCHANGED <<mpc, conn, idx, executed, connReports, queryReports,
                   cursors>>
    /\ UNCHANGED frameVars

\* results = cursor.fetchall(); columns = [desc[0] for desc in cursor.description]
Fetch(resultSet) ==
    /\ qpc = "fetch"
    /\ \/ \E r \in resultSet :
             /\ results' = r.rows
             /\ columns' = r.columns
             /\ qpc' = "check"
       \/ /\ qpc' = "except"
          /\ UNCHANGED <<results, columns>>
    /\ UNCHANGED <<mpc, conn, idx, executed, connReports, queryReports,
                   cursors, limit_rows, cursor, display_results, col_widths,
                   wi, wj, ri, out, outcome>>

\* if not results: print("No results found."); return
AfterEmptyGoOn == "limit"
AfterEmpty == "return"

CheckEmpty ==
    /\ qpc = "check"
    /\ IF Len(results) = 0
       THEN /\ out' = Append(out, Line("noresults", "No results found."))
            /\ outcome' = IF AfterEmpty = "return" THEN "empty" ELSE outcome
            /\ qpc' = AfterEmpty
       ELSE /\ qpc' = "limit"
            /\ UNCHANGED <<out, outcome>>
    /\ UNCHANGED <<mpc, conn, idx, executed, connReports, queryReports,
                   cursors, limit_rows, cursor, results, columns,
                   display_results, col_widths, wi, wj, ri>>

\* display_results = ...; the first loop over columns sets the floor widths
LimitAndInitWidths ==
    /\ qpc = "limit"
    /\ display_results' = Display(results, limit_rows)
    /\ col_widths' = InitWidths(columns)
    /\ wi' = 1 /\ wj' = 1
    /\ qpc' = "widths"
    /\ UNCHANGED <<mpc, conn, idx, executed, connReports, queryReports,
                   cursors, limit_rows, cursor, results, columns, ri, out,
                   outcome>>

\* one step of: for row in display_results[:5]: for i, val in enumerate(row)
WidthStep ==
    /\ qpc = "widths"
    /\ LET sample == Sample(display_results) IN
       IF wi > Len(sample)
       THEN \* the loop is over
            /\ qpc' = "header"
            /\ UNCHANGED <<col_widths, wi, wj>>
       ELSE IF wj > Len(sample[wi])
       THEN \* next row
            /\ wi' = wi + 1 /\ wj' = 1
            /\ UNCHANGED <<col_widths, qpc>>
       ELSE IF wj > Len(columns)
       THEN \* col = columns[i] raises IndexError
            /\ qpc' = "except"
            /\ UNCHANGED <<col_widths, wi, wj>>
       ELSE /\ col_widths' =
                [col_widths EXCEPT ![columns[wj]] = Widen(@, sample[wi][wj])]
            /\ wj' = wj + 1
            /\ UNCHANGED <<qpc, wi>>
    /\ UNCHANGED <<mpc, conn, idx, executed, connReports, queryReports,
                   cursors, limit_rows, cursor, results, columns,
                   display_results, ri, out, outcome>>

\* print(header); print("-" * len(header))
PrintHeader ==
    /\ qpc = "header"
    /\ LET header == HeaderLine(columns, col_widths) IN
       out' = out \o <<Line("header", header),
                       Line("separator", Repeat("-", Len(header)))>>
    /\ ri' = 1
    /\ qpc' = "rows"
    /\ UNCHANGED <<mpc, conn, idx, executed, connReports, queryReports,
                   cursors, limit_rows, cursor, results, columns,
                   display_results, col_widths, wi, wj, outcome>>

\* one pass of: for row in display_results: print(row_str)
PrintRow ==
    /\ qpc = "rows"
    /\ IF ri > Len(display_results)
       THEN /\ qpc' = "summary"
            /\ UNCHANGED <<out, ri>>
       ELSE IF Len(display_results[ri]) > Len(columns)
       THEN \* columns[i] raises IndexError while row_str is built
            /\ qpc' = "except"
            /\ UNCHANGED <<out, ri>>
       ELSE /\ out' = Append(out, Line("row",
                          RowLine(display_results[ri], columns, col_widths)))
            /\ ri' = ri + 1
            /\ UNCHANGED qpc
    /\ UNCHANGED <<mpc, conn, idx, executed, connReports, queryReports,
                   cursors, limit_rows, cursor, results, columns,
                   display_results, col_widths, wi, wj, outcome>>

\* the summary line
Summary ==
    /\ qpc = "summary"
    /\ out' = Append(out, Line("footer",
                  SummaryLine(results, display_results, limit_rows)))
    /\ qpc' = "close"
    /\ UNCHANGED <<mpc, conn, idx, executed, connReports, queryReports,
                   cursors, limit_rows, cursor, results, columns,
                   display_results, col_widths, wi, wj, ri, outcome>>

\* cursor.close(), the last statement of the try block
CloseCursor ==
    /\ qpc = "close"
    /\ cursor' = "closed"
    /\ cursors' = cursors - 1
    /\ outcome' = "rendered"
    /\ qpc' = "return"
    /\ UNCHANGED <<mpc, conn, idx, executed, connReports, queryReports,
                   limit_rows, results, columns, display_results, col_widths,
                   wi, wj, ri, out>>

\* except Exception as e: print(f"Query failed: {e}")
AfterExceptRetry == "banner"
AfterExcept == "return"

Except ==
    /\ qpc = "except"
    /\ out' = Append(out, Line("failed", "Query failed"))
    /\ queryReports' = queryReports + 1
    /\ outcome' = "failed"
    /\ qpc' = AfterExcept
    /\ UNCHANGED <<mpc, conn, idx, executed, connReports, cursors, limit_rows,
                   cursor, results, columns, display_results, col_widths,
                   wi, wj, ri>>

\* execute_query returns to the loop in main(); its locals are gone
Return ==
    /\ qpc = "return"
    /\ qpc' = "idle"
    /\ mpc' = "loop"
    /\ idx' = idx + 1
    /\ limit_rows' = NoLimit
    /\ cursor' = "none"
    /\ results' = <<>>
    /\ columns' = <<>>
    /\ display_results' = <<>>
    /\ col_widths' = EmptyWidths
    /\ wi' = 0 /\ wj' = 0 /\ ri' = 0
    /\ out' = <<>>
    /\ outcome' = "none"
    /\ UNCHANGED <<conn, executed, connReports, queryReports, cursors>>

----------------------------------------------------------------------------
(* The whole run of main() over the catalog *)

Next ==
    \/ ConnectOk \/ ConnectFail \/ CheckConn \/ Call \/ CloseConn
    \/ Banner \/ OpenCursor \/ Execute \/ Fetch(MainResults) \/ CheckEmpty
    \/ LimitAndInitWidths \/ WidthStep \/ PrintHeader \/ PrintRow
    \/ Summary \/ CloseCursor \/ Except \/ Return

Spec == Init /\ [][Next]_vars

(* One call execute_query(connection, name, sql, limit_rows) on an open     *)
(* connection, with any display limit and any result of the database        *)

InitQuery ==
    /\ mpc = "call"
    /\ conn = "open"
    /\ idx = 0
    /\ executed = <<>>
    /\ connReports = 0
    /\ queryReports = 0
    /\ cursors = 0
    /\ qpc = "banner"
    /\ limit_rows \in Limits
    /\ cursor = "none"
    /\ results = <<>>
    /\ columns = <<>>
    /\ display_results = <<>>
    /\ col_widths = EmptyWidths
    /\ wi = 0 /\ wj = 0 /\ ri = 0
    /\ out = <<>>
    /\ outcome = "none"

NextQuery ==
    \/ Banner \/ OpenCursor \/ Execute \/ Fetch(QueryResults) \/ CheckEmpty
    \/ LimitAndInitWidths \/ WidthStep \/ PrintHeader \/ PrintRow
    \/ Summary \/ CloseCursor \/ Except \/ Return

SpecQuery == InitQuery /\ [][NextQuery]_vars


----------------------------------------------------------------------------
(* Properties *)

\* the printed lines of one kind, in order
Lines(kind) == SelectSeq(out, LAMBDA l : l.kind = kind)

\* what the call printed after its banner
Body == SelectSeq(out, LAMBDA l : l.kind # "banner")

SetMax(S) == CHOOSE x \in S : \A y \in S : x >= y

UniqueColumns ==
    Cardinality({columns[i] : i \in 1..Len(columns)}) = Len(columns)

\* C1: when execute_query returns, on every exit path, the cursor it opened
\* has been closed; so no cursor is open when the next entry's call starts.
C1_CursorReleasedOnEveryExit ==
    /\ qpc = "return" => cursor # "open"
    /\ qpc = "banner" => cursors = 0

\* C2: once connected, every catalog entry is executed exactly once and in
\* catalog order whatever entries fail: a failure is reported once for its
\* entry, is not retried, does not leave execute_query as an exception, and
\* the run goes on to the next entry on the same open connection.
C2_EveryEntryOnceInOrder ==
    /\ executed = [i \in 1..Len(executed) |-> i]
    /\ mpc = "call" => idx = Len(executed) /\ conn = "open"
    /\ mpc = "loop" => Len(executed) = idx - 1 /\ conn = "open"
    /\ mpc = "done" => Len(executed) = NumEntries /\ conn = "closed"
    /\ mpc \in {"start", "check", "aborted", "loop", "call", "done"}
    /\ queryReports <= Len(executed)
    /\ Len(Lines("failed")) <= 1
    /\ qpc = "return" => (outcome = "failed" <=> Len(Lines("failed")) = 1)

\* the last entry renders normally after an earlier entry failed
C2_Witness ==
    /\ qpc = "return" /\ outcome = "rendered"
    /\ idx = NumEntries /\ queryReports > 0

\* C3: if no connection is obtained the run aborts before any query: no
\* execute_query call, no cursor, no connection close, one failure report.
C3_AbortBeforeAnyQuery ==
    conn = "none" =>
        /\ mpc \in {"check", "aborted"}
        /\ executed = <<>>
        /\ qpc = "idle"
        /\ cursor = "none" /\ cursors = 0
        /\ queryReports = 0
        /\ connReports = 1

C3_Witness == mpc = "aborted" /\ conn = "none"

\* C4: for N > 0 rows and a limit L that is positive or absent, the rows
\* printed are the first min(L, N) rows in order (all N without a limit);
\* the footer is "Showing L of N rows" exactly when L is present and L < N
\* and "Total rows: N" otherwise, N being the fetched row count.
C4_RowsAndFooter ==
    (qpc = "return" /\ Len(results) > 0
        /\ WellFormed(results, columns)
        /\ (limit_rows.some => limit_rows.n > 0)) =>
    LET N == Len(results)
        L == limit_rows.n
        shown == IF limit_rows.some THEN Min(L, N) ELSE N
        rows == Lines("row")
    IN  /\ outcome = "rendered"
        /\ Len(rows) = shown
        /\ \A k \in 1..shown :
              rows[k].text = RowLine(results[k], columns, col_widths)
        /\ Len(Lines("footer")) = 1
        /\ out[Len(out)].kind = "footer"
        /\ out[Len(out)].text =
              IF limit_rows.some /\ L < N
              THEN "Showing " \o StrInt(L) \o " of " \o StrInt(N) \o " rows"
              ELSE "Total rows: " \o StrInt(N)

\* six rows under a limit of five
C4_Witness ==
    /\ qpc = "return" /\ outcome = "rendered"
    /\ limit_rows = Limit(5) /\ Len(results) = 6
    /\ WellFormed(results, columns)

\* C5: a display limit of 0 shows zero data rows of a non-empty result.
C5_ZeroLimitShowsNoRows ==
    (qpc = "return" /\ outcome = "rendered" /\ limit_rows = Limit(0)
        /\ WellFormed(results, columns)) =>
        Len(Lines("row")) = 0

\* C6: throughout the width computation and after it, every column's width
\* is >= 10 and >= the length of its name, and while the sample rows are
\* scanned a width never shrinks.
C6_Floor ==
    /\ \A c \in DOMAIN col_widths :
          col_widths[c] >= MinWidth /\ col_widths[c] >= Len(c)
    /\ qpc \in {"widths", "header", "rows", "summary", "close"} =>
          DOMAIN col_widths = {columns[i] : i \in 1..Len(columns)}

C6_Grow ==
    qpc = "widths" =>
        \A c \in DOMAIN col_widths :
            c \in DOMAIN col_widths' /\ col_widths'[c] >= col_widths[c]

C6_WidthsFloorAndGrow == []C6_Floor /\ [][C6_Grow]_vars

\* in the middle of the scan a width has grown beyond its floor
C6_Witness ==
    /\ qpc = "widths" /\ wi = 2
    /\ \E c \in DOMAIN col_widths : col_widths[c] > Max(Len(c), MinWidth)

\* C7: a query that returns zero rows prints the single "no results" line:
\* no header, separator, data row or footer, and no failure report.
C7_EmptyResultOneLine ==
    /\ (columns # <<>> /\ Len(results) = 0) =>
          /\ qpc \in {"check", "return"}
          /\ qpc = "return" =>
                /\ Body = <<Line("noresults", "No results found.")>>
                /\ outcome = "empty"
    /\ Len(Lines("noresults")) > 0 => Len(Body) = 1

C7_Witness ==
    qpc = "return" /\ columns # <<>> /\ Len(results) = 0 /\ Len(Body) = 1

\* the text a cell must show in a column of width w
C8_Cell(val, w) ==
    LET t == IF val = None THEN "NULL" ELSE Str(val)
    IN  IF Len(t) >= w THEN t ELSE Repeat(" ", w - Len(t)) \o t

TextLen(val) == IF val = None THEN 4 ELSE Len(Str(val))

\* C8: every cell of every printed row shows NULL for a null and the full
\* string of any other value, left-padded to the column's width and never
\* cut: a value longer than the width makes the row wider than the header.
C8_CellsInFull ==
    LET rows == Lines("row") IN
    \A k \in 1..Len(rows) :
        LET r == display_results[k]
            W(i) == col_widths[columns[i]]
        IN  /\ rows[k].text =
                  Join(" | ", [i \in 1..Len(r) |-> C8_Cell(r[i], W(i))])
            /\ Len(r) = Len(columns) =>
                  /\ Len(rows[k].text) >= Len(Lines("header")[1].text)
                  /\ Len(rows[k].text) > Len(Lines("header")[1].text)
                        <=> \E i \in 1..Len(r) : TextLen(r[i]) > W(i)

\* a printed row holds a null, and a printed row is wider than the header
C8_Witness ==
    /\ qpc = "return" /\ outcome = "rendered"
    /\ \E k \in 1..Len(display_results) :
          \E i \in 1..Len(display_results[k]) : display_results[k][i] = None
    /\ \E k \in 1..Len(Lines("row")) :
          Len(Lines("row")[k].text) > Len(Lines("header")[1].text)

\* C9: a result with a row whose length differs from the number of columns
\* is reported as a failure of that query (stated here for calls without a
\* display limit, where every fetched row is displayed).
C9_MalformedIsFailure ==
    (qpc = "return" /\ columns # <<>> /\ ~limit_rows.some
        /\ ~WellFormed(results, columns)) =>
        outcome = "failed"

\* the longest cell of column j among the first five displayed rows
C10_M(j) ==
    SetMax({0} \cup
           {TextLen(display_results[i][j]) :
               i \in {x \in 1..Min(SampleSize, Len(display_results)) :
                         j <= Len(display_results[x])}})

\* C10: with unique column names, once the widths are computed each width
\* is max(len(name), 10, min(20, M)), M the longest cell (null counts 4) of
\* the column in the first min(5, displayed) displayed rows; later rows and
\* rows cut by the limit play no part, and no width is above
\* max(len(name), 20).
C10_WidthFormula ==
    (qpc \in {"header", "rows", "summary", "close"} /\ UniqueColumns) =>
        /\ display_results = SubSeq(results, 1, Len(display_results))
        /\ \A j \in 1..Len(columns) :
              /\ col_widths[columns[j]] =
                    Max(Max(Len(columns[j]), MinWidth),
                        Min(MaxValWidth, C10_M(j)))
              /\ col_widths[columns[j]] <= Max(Len(columns[j]), MaxValWidth)

\* the sixth displayed row holds a value longer than its column is wide
C10_Witness ==
    /\ qpc = "header" /\ UniqueColumns
    /\ Len(display_results) = 6 /\ WellFormed(results, columns)
    /\ \E j \in 1..Len(columns) :
          /\ TextLen(display_results[6][j]) > col_widths[columns[j]]
          /\ TextLen(display_results[6][j]) <= MaxValWidth


====
